---------------------------- MODULE Spec2Model ----------------------------
(***************************************************************************)
(* Model of bookeditor.py: import and export of the pages of a Minecraft   *)
(* "Book and Quill" held in a player's inventory.                          *)
(*                                                                         *)
(* Text (a page, a separator, the contents of the text file) is a sequence *)
(* of one-character strings.  An inventory item is a record whose fields   *)
(* are the keys of its TAG_Compound; an item that was never written on has *)
(* no "tag" field.  Data model assumed throughout: a "tag" that is present *)
(* holds a "pages" list, and every item has an "id" and a "Slot".          *)
(***************************************************************************)
EXTENDS Integers, Sequences, FiniteSets, TLC

VARIABLES
    inventory,  \* Inventory of the world object the last call worked on
    disk,       \* Inventory of the world as saved on disk
    root_tag,   \* world.root_tag['Data']: its keys and the GameRules keys
    file,       \* contents of the text file (or of stdin / stdout)
    run,        \* what the last call was given, did and returned
    runs,       \* number of calls made so far
    cpages,     \* page codec: the pages handed to the export framing
    csep,       \* page codec: the separator
    cout,       \* page codec: the pages the import splitting gave back
    cpc         \* page codec: "init", "exported", "imported"

vars == <<inventory, disk, root_tag, file, run, runs, cpages, csep, cout, cpc>>

-----------------------------------------------------------------------------
(* Bounds *)

MaxPageLen == 2     \* characters of a page in the codec specification
MaxPages   == 2     \* pages of a book in the codec specification
MaxRuns    == 2     \* calls in one behaviour
MaxSlot    == 40    \* largest Slot value of the data model

-----------------------------------------------------------------------------
(* Program constants *)

BookShortId    == 386
MainSlots      == 36
FullInventory  == 40
BookStringId   == "minecraft:writable_book"
DefaultSeparator == <<"-", "-", "-">>

NL == "\n"

-----------------------------------------------------------------------------
(* Text helpers: Python str operations on sequences of characters *)

Chars(s) == {s[i] : i \in 1..Len(s)}

\* s[:-1]
DropLast(s) == IF Len(s) = 0 THEN s ELSE SubSeq(s, 1, Len(s) - 1)

\* s.rstrip(chars): removes trailing characters that are members of chars
RECURSIVE RStrip(_, _)
RStrip(s, chars) ==
    IF Len(s) > 0 /\ s[Len(s)] \in Chars(chars)
    THEN RStrip(SubSeq(s, 1, Len(s) - 1), chars)
    ELSE s

StartsAt(s, sep, i) ==
    /\ i + Len(sep) - 1 <= Len(s)
    /\ SubSeq(s, i, i + Len(sep) - 1) = sep

IsSubstring(sep, s) == \E i \in 1..(Len(s) + 1) : StartsAt(s, sep, i)

\* s.split(sep) for a non-empty sep: leftmost, non-overlapping occurrences
RECURSIVE Split(_, _)
Split(s, sep) ==
    IF IsSubstring(sep, s)
    THEN LET i == CHOOSE k \in 1..Len(s) :
                    /\ StartsAt(s, sep, k)
                    /\ \A j \in 1..(k - 1) : ~StartsAt(s, sep, j)
         IN  <<SubSeq(s, 1, i - 1)>>
                 \o Split(SubSeq(s, i + Len(sep), Len(s)), sep)
    ELSE <<s>>

\* sep.join(pages)
RECURSIVE Join(_, _)
Join(pages, sep) ==
    IF Len(pages) = 0 THEN <<>>
    ELSE IF Len(pages) = 1 THEN pages[1]
    ELSE pages[1] \o sep \o Join(Tail(pages), sep)

\* "\n%s\n" % separator
Framing(separator) == <<NL>> \o separator \o <<NL>>

-----------------------------------------------------------------------------
(* Page codec *)

\* exportbook: ("\n%s\n" % separator).join(pages) + "\n"
ExportText(pages, separator) == Join(pages, Framing(separator)) \o <<NL>>

\* importbook: fd.read()[:-1].rstrip(sep).split(sep)
ImportPages(text, separator) ==
    LET sep == Framing(separator)
    IN  Split(RStrip(DropLast(text), sep), sep)

-----------------------------------------------------------------------------
(* Items and tags *)

TagShort(n)  == [tagID |-> "TAG_Short", value |-> n]
TagString(s) == [tagID |-> "TAG_String", value |-> s]

\* faulty variant: only the legacy numeric identifier is matched
IsBook_LegacyOnly(item) ==
    item.id.tagID = "TAG_Short" /\ item.id.value = BookShortId

\* item["id"].value in (386, 'minecraft:writable_book')
IsBook(item) ==
    \/ item.id.tagID = "TAG_Short" /\ item.id.value = BookShortId
    \/ item.id.tagID = "TAG_String" /\ item.id.value = BookStringId

\* faulty variant: the default tag holds an empty list of pages
new_booktag_NoPage == [pages |-> <<>>]

\* new_booktag(): a "pages" list holding one empty TAG_String
new_booktag == [pages |-> << <<>> >>]

HasTag(item) == "tag" \in DOMAIN item

\* faulty variant: book["tag"] = value, overwriting a tag that is present
SetDefaultTag_Overwrite(item, value) ==
    [k \in DOMAIN item \cup {"tag"} |-> IF k = "tag" THEN value ELSE item[k]]

\* book.setdefault("tag", value)
SetDefaultTag(item, value) ==
    IF HasTag(item) THEN item ELSE item @@ ("tag" :> value)

\* for item in inventory: if <match>: break / else: not found (0).
\* The loop stops at the first match, the least matching index.
FindBook(inv) ==
    IF \E i \in 1..Len(inv) : IsBook(inv[i])
    THEN CHOOSE i \in 1..Len(inv) :
             IsBook(inv[i]) /\ \A j \in 1..(i - 1) : ~IsBook(inv[j])
    ELSE 0

\* get_bookpages(inventory): err stands for the LookupError
get_bookpages(inv) ==
    LET i == FindBook(inv)
    IN  IF i = 0
        THEN [err |-> TRUE, inventory |-> inv, book |-> 0, pages |-> <<>>]
        ELSE LET book == SetDefaultTag(inv[i], new_booktag)
             IN  [err |-> FALSE,
                  inventory |-> [inv EXCEPT ![i] = book],
                  book |-> i,
                  pages |-> book.tag.pages]

-----------------------------------------------------------------------------
(* Slots *)

\* range(n)
Range(n) == [i \in 1..n |-> i - 1]

\* slot in slots / slots.remove(slot), for every item of the inventory: the
\* loop leaves the values of range(36) that are the Slot of no item, in order
Occupied(inv, slot) == \E i \in 1..Len(inv) : inv[i].Slot = slot

RemoveOccupied(slots, inv) ==
    SelectSeq(slots, LAMBDA slot : ~Occupied(inv, slot))

\* faulty variant: no shortcut for an inventory of 40 items
free_slots_NoShortcut(inv) == RemoveOccupied(Range(MainSlots), inv)

free_slots(inv) ==
    IF Len(inv) = FullInventory
    THEN <<>>
    ELSE RemoveOccupied(Range(MainSlots), inv)

-----------------------------------------------------------------------------
(* Book creation *)

None == -1      \* slot=None

\* 'Version' in root or 'logAdminCommands' in root['GameRules']
ItemID(root) ==
    IF "Version" \in root.Data \/ "logAdminCommands" \in root.GameRules
    THEN TagString(BookStringId)
    ELSE TagShort(BookShortId)

NewBookItem(root, slot) ==
    [id |-> ItemID(root), Damage |-> 0, Count |-> 1, Slot |-> slot,
     tag |-> new_booktag]

\* faulty variant: the book is appended before the free slots are looked at
new_book_AppendFirst(root, inv, given, slot) ==
    LET slots == free_slots(inv)
        noslot == slot = None /\ given /\ Len(slots) = 0
        s == IF slot # None THEN slot
             ELSE IF ~given \/ noslot THEN 0
             ELSE slots[1]
        book == NewBookItem(root, s)
    IN  [err |-> noslot,
         inventory |-> IF given THEN Append(inv, book) ELSE inv,
         book |-> IF given /\ ~noslot THEN Len(inv) + 1 ELSE 0,
         item |-> book,
         pages |-> IF noslot THEN <<>> ELSE book.tag.pages]

\* faulty variant: the highest free slot is taken, not the lowest
new_book_LastSlot(root, inv, given, slot) ==
    LET slots == free_slots(inv)
        noslot == slot = None /\ given /\ Len(slots) = 0
        s == IF slot # None THEN slot
             ELSE IF ~given THEN 0
             ELSE slots[Len(slots)]
    IN  IF noslot
        THEN [err |-> TRUE, inventory |-> inv, book |-> 0, pages |-> <<>>]
        ELSE LET book == NewBookItem(root, s)
             IN  [err |-> FALSE,
                  inventory |-> IF given THEN Append(inv, book) ELSE inv,
                  book |-> IF given THEN Len(inv) + 1 ELSE 0,
                  item |-> book,
                  pages |-> book.tag.pages]

\* new_book(world, inventory, slot); given = FALSE stands for inventory=None,
\* err for the LookupError "No empty slot in inventory"
new_book(root, inv, given, slot) ==
    LET slots == free_slots(inv)
        noslot == slot = None /\ given /\ Len(slots) = 0
        s == IF slot # None THEN slot
             ELSE IF ~given THEN 0
             ELSE slots[1]
    IN  IF noslot
        THEN [err |-> TRUE, inventory |-> inv, book |-> 0, pages |-> <<>>]
        ELSE LET book == NewBookItem(root, s)
             IN  [err |-> FALSE,
                  inventory |-> IF given THEN Append(inv, book) ELSE inv,
                  book |-> IF given THEN Len(inv) + 1 ELSE 0,
                  item |-> book,
                  pages |-> book.tag.pages]

-----------------------------------------------------------------------------
(* Handlers.  ext tells which external resources can be acquired:           *)
(* ext.io (openstd / read), ext.world (load_world), ext.player              *)
(* (get_inventory).  outcome names the place the handler returned from.     *)

\* exportbook(world, player, filename, separator)
exportbook(inv, text, ext, separator) ==
    IF ~ext.world
    THEN [outcome |-> "world", inventory |-> inv, file |-> text,
          book |-> 0, pages |-> <<>>]
    ELSE IF ~ext.player
    THEN [outcome |-> "player", inventory |-> inv, file |-> text,
          book |-> 0, pages |-> <<>>]
    ELSE LET found == get_bookpages(inv)
         IN  IF found.err
             THEN [outcome |-> "nobook", inventory |-> inv, file |-> text,
                   book |-> 0, pages |-> <<>>]
             ELSE IF ~ext.io
             THEN [outcome |-> "io", inventory |-> found.inventory,
                   file |-> text, book |-> found.book,
                   pages |-> found.pages]
             ELSE [outcome |-> "ok", inventory |-> found.inventory,
                   file |-> ExportText(found.pages, separator),
                   book |-> found.book, pages |-> found.pages]

\* lines 301-316: the book-lookup/creation stage of importbook
LookupOrCreate(root, inv, create) ==
    LET found == get_bookpages(inv)
    IN  IF ~found.err
        THEN [outcome |-> "ok", inventory |-> found.inventory,
              book |-> found.book, pages |-> found.pages,
              created |-> FALSE]
        ELSE IF ~create
        THEN [outcome |-> "nobook", inventory |-> inv, book |-> 0,
              pages |-> <<>>, created |-> FALSE]
        ELSE LET made == new_book(root, inv, TRUE, None)
             IN  IF made.err
                 THEN [outcome |-> "noslot", inventory |-> inv, book |-> 0,
                       pages |-> <<>>, created |-> FALSE]
                 ELSE [outcome |-> "ok", inventory |-> made.inventory,
                       book |-> made.book, pages |-> made.pages,
                       created |-> TRUE]

\* faulty variant: the pages are never cleared
WritePages_NeverClear(bookpages, pages, append) == bookpages \o pages

\* lines 320-324: del(bookpages[:]) unless append, then append every page
WritePages(bookpages, pages, append) ==
    (IF append THEN bookpages ELSE <<>>) \o pages

\* faulty variant: the world is saved whatever the apply flag says
SaveCalls_Always(apply) == 1

\* lines 326-330: world.saveInPlace() is called only when apply is set
SaveCalls(apply) == IF apply THEN 1 ELSE 0

Stopped(outcome, inv, dsk) ==
    [outcome |-> outcome, inventory |-> inv, disk |-> dsk, saves |-> 0,
     book |-> 0, old |-> <<>>, new |-> <<>>, created |-> FALSE]

\* faulty variant: the source file is read after the book was looked up or created
importbook_ReadLate(root, inv, dsk, text, ext, separator, append, create, apply) ==
    IF ~ext.world THEN Stopped("world", inv, dsk)
    ELSE IF ~ext.player THEN Stopped("player", inv, dsk)
    ELSE LET got == LookupOrCreate(root, inv, create)
         IN  IF got.outcome # "ok"
             THEN Stopped(got.outcome, got.inventory, dsk)
             ELSE IF ~ext.io THEN Stopped("io", got.inventory, dsk)
             ELSE LET pages == ImportPages(text, separator)
                      written == WritePages(got.pages, pages, append)
                      after == [got.inventory EXCEPT
                                   ![got.book].tag.pages = written]
                      saves == SaveCalls(apply)
                  IN  [outcome |-> "ok", inventory |-> after,
                       disk |-> IF saves > 0 THEN after ELSE dsk,
                       saves |-> saves, book |-> got.book,
                       old |-> got.pages, new |-> pages,
                       created |-> got.created]

\* importbook(world, player, filename, separator, append, create, apply)
importbook(root, inv, dsk, text, ext, separator, append, create, apply) ==
    IF ~ext.io THEN Stopped("io", inv, dsk)
    ELSE IF ~ext.world THEN Stopped("world", inv, dsk)
    ELSE IF ~ext.player THEN Stopped("player", inv, dsk)
    ELSE LET pages == ImportPages(text, separator)
             got == LookupOrCreate(root, inv, create)
         IN  IF got.outcome # "ok"
             THEN Stopped(got.outcome, got.inventory, dsk)
             ELSE LET written == WritePages(got.pages, pages, append)
                      after == [got.inventory EXCEPT
                                   ![got.book].tag.pages = written]
                      saves == SaveCalls(apply)
                  IN  [outcome |-> "ok", inventory |-> after,
                       disk |-> IF saves > 0 THEN after ELSE dsk,
                       saves |-> saves, book |-> got.book,
                       old |-> got.pages, new |-> pages,
                       created |-> got.created]

-----------------------------------------------------------------------------
(* Inventories the behaviours start from *)

Min(S) == CHOOSE x \in S : \A y \in S : x <= y
Max(S) == CHOOSE x \in S : \A y \in S : x >= y

Ascending(S) ==
    [i \in 1..Cardinality(S) |->
        CHOOSE x \in S : Cardinality({y \in S : y < x}) = i - 1]

Reverse(s) == [i \in 1..Len(s) |-> s[Len(s) + 1 - i]]

\* an item that is no Book and Quill: a written book or a stone
Filler(s) ==
    [id |-> IF s % 2 = 0 THEN TagShort(BookShortId + 1)
                         ELSE TagString("minecraft:stone"),
     Damage |-> 0, Count |-> 1, Slot |-> s]

BookVariants == [enc : {"short", "string"}, tag : {"none", "empty", "AB"}]

BookItem(s, v) ==
    LET bare == [id |-> IF v.enc = "short" THEN TagShort(BookShortId)
                                          ELSE TagString(BookStringId),
                 Damage |-> 0, Count |-> 1, Slot |-> s]
    IN  IF v.tag = "none" THEN bare
        ELSE bare @@ ("tag" :> [pages |-> IF v.tag = "empty"
                                          THEN << <<>> >>
                                          ELSE << <<"A">>, <<"B">> >>])

\* books: a function from some of the slots to book variants
MkInventory(slots, descending, books) ==
    LET order == IF descending THEN Reverse(Ascending(slots))
                               ELSE Ascending(slots)
    IN  [i \in 1..Len(order) |->
            IF order[i] \in DOMAIN books
            THEN BookItem(order[i], books[order[i]])
            ELSE Filler(order[i])]

NoBooks == [s \in {} |-> 0]

SlotSets ==
    {S \in {(0..hi) \ miss :
                hi \in {-1, 2, MainSlots - 1, MaxSlot - 1, MaxSlot},
                miss \in SUBSET {0, 5, MainSlots}} :
        Cardinality(S) <= FullInventory}

Ends(S) == {x \in S : (\A y \in S : x <= y) \/ (\A y \in S : x >= y)}

Placements(S) ==
    {NoBooks}
    \cup {(b :> v) : b \in Ends(S), v \in BookVariants}
    \cup {(Min(S) :> v) @@ (Max(S) :> w) :
             v \in {x \in BookVariants : Cardinality(S) >= 2},
             w \in BookVariants}

FnInventories ==
    UNION {{MkInventory(S, d, b) : d \in BOOLEAN, b \in Placements(S)} :
              S \in SlotSets}

SeqSlotSets ==
    {{}, {0, 1, 2}, {1, 2, 3},
     0..(MainSlots - 1), (0..(MainSlots - 1)) \ {5},
     (0..FullInventory) \ {5}}

SeqPlacements(S) ==
    {NoBooks}
    \cup {(Min(S) :> v) :
             v \in {x \in {[enc |-> "short", tag |-> "none"],
                           [enc |-> "string", tag |-> "AB"]} : S # {}}}

SeqInventories ==
    UNION {{MkInventory(S, FALSE, b) : b \in SeqPlacements(S)} :
              S \in SeqSlotSets}

RootTags ==
    {[Data |-> {}, GameRules |-> {}],
     [Data |-> {"Version"}, GameRules |-> {}],
     [Data |-> {}, GameRules |-> {"logAdminCommands"}]}

Externals == [io : BOOLEAN, world : BOOLEAN, player : BOOLEAN]

-----------------------------------------------------------------------------
(* The record of the last call *)

Call(op, inv) ==
    [op |-> op, outcome |-> "ok", inv0 |-> inv, disk0 |-> disk,
     book |-> 0, pages |-> <<>>, new |-> <<>>, slots |-> <<>>,
     saves |-> 0, append |-> FALSE, create |-> FALSE, apply |-> FALSE,
     created |-> FALSE, given |-> FALSE, slot |-> None]

Idle == [op |-> "none"]

-----------------------------------------------------------------------------
(* Actions: one call of a function of the module; n bounds the calls *)

Lookup(n) ==
    /\ runs < n
    /\ LET r == get_bookpages(inventory)
       IN  /\ inventory' = r.inventory
           /\ run' = [Call("get_bookpages", inventory) EXCEPT
                         !.outcome = IF r.err THEN "nobook" ELSE "ok",
                         !.book = r.book, !.pages = r.pages]
    /\ runs' = runs + 1
    /\ UNCHANGED <<disk, root_tag, file, cpages, csep, cout, cpc>>

FreeSlots(n) ==
    /\ runs < n
    /\ run' = [Call("free_slots", inventory) EXCEPT
                  !.slots = free_slots(inventory)]
    /\ runs' = runs + 1
    /\ UNCHANGED <<inventory, disk, root_tag, file, cpages, csep, cout, cpc>>

NewBook(n) ==
    /\ runs < n
    /\ \E given \in BOOLEAN, slot \in {None, 0, 5} :
          LET r == new_book(root_tag, inventory, given, slot)
          IN  /\ inventory' = r.inventory
              /\ run' = [Call("new_book", inventory) EXCEPT
                            !.outcome = IF r.err THEN "noslot" ELSE "ok",
                            !.book = r.book, !.pages = r.pages,
                            !.created = ~r.err,
                            !.given = given, !.slot = slot]
    /\ runs' = runs + 1
    /\ UNCHANGED <<disk, root_tag, file, cpages, csep, cout, cpc>>

\* load_world(name): a fresh world object read from the save on disk
LoadWorld(n) ==
    /\ runs < n
    /\ inventory' = disk
    /\ run' = Call("load_world", inventory)
    /\ runs' = runs + 1
    /\ UNCHANGED <<disk, root_tag, file, cpages, csep, cout, cpc>>

ExportBook(n) ==
    /\ runs < n
    /\ \E ext \in Externals :
          LET r == exportbook(inventory, file, ext, DefaultSeparator)
          IN  /\ inventory' = r.inventory
              /\ file' = r.file
              /\ run' = [Call("exportbook", inventory) EXCEPT
                            !.outcome = r.outcome, !.book = r.book,
                            !.pages = r.pages]
    /\ runs' = runs + 1
    /\ UNCHANGED <<disk, root_tag, cpages, csep, cout, cpc>>

ImportBook(n, creates) ==
    /\ runs < n
    /\ \E ext \in Externals, append \in BOOLEAN, create \in creates,
          apply \in BOOLEAN :
          LET r == importbook(root_tag, inventory, disk, file, ext,
                              DefaultSeparator, append, create, apply)
          IN  /\ inventory' = r.inventory
              /\ disk' = r.disk
              /\ run' = [Call("importbook", inventory) EXCEPT
                            !.outcome = r.outcome, !.book = r.book,
                            !.pages = r.old, !.new = r.new,
                            !.saves = r.saves, !.append = append,
                            !.create = create, !.apply = apply,
                            !.created = r.created]
    /\ runs' = runs + 1
    /\ UNCHANGED <<root_tag, file, cpages, csep, cout, cpc>>

-----------------------------------------------------------------------------
(* Specifications *)

NoCodec ==
    /\ cpages = <<>>
    /\ csep = DefaultSeparator
    /\ cout = <<>>
    /\ cpc = "off"

\* the text file first holds one page, "C"
Init ==
    /\ inventory \in SeqInventories
    /\ disk = inventory
    /\ root_tag \in RootTags
    /\ file = ExportText(<< <<"C">> >>, DefaultSeparator)
    /\ run = Idle
    /\ runs = 0
    /\ NoCodec

Next ==
    \/ Lookup(MaxRuns)
    \/ FreeSlots(MaxRuns)
    \/ NewBook(MaxRuns)
    \/ LoadWorld(MaxRuns)
    \/ ExportBook(MaxRuns)
    \/ ImportBook(MaxRuns, BOOLEAN)

Spec == Init /\ [][Next]_vars

\* repeated runs of importbook with create enabled, on the world object at
\* hand or on one freshly loaded from disk
ImportNext ==
    \/ LoadWorld(MaxRuns + 1)
    \/ ImportBook(MaxRuns + 1, {TRUE})

SpecImport == Init /\ [][ImportNext]_vars

\* one call of get_bookpages, free_slots or new_book on every inventory of
\* the family
FnInit ==
    /\ inventory \in FnInventories
    /\ disk = inventory
    /\ root_tag \in RootTags
    /\ file = <<>>
    /\ run = Idle
    /\ runs = 0
    /\ NoCodec

FnNext ==
    \/ Lookup(1)
    \/ FreeSlots(1)
    \/ NewBook(1)

SpecFn == FnInit /\ [][FnNext]_vars

-----------------------------------------------------------------------------
(* Codec specification: pages P and separator S drawn from bounded sets *)

Alphabet == {"A", "-", NL}

Strings(n) == UNION {[1..k -> Alphabet] : k \in 0..n}

Separators == {DefaultSeparator, <<"-">>, <<"A">>}

\* a book holds at least one page (an unwritten book gets one empty page)
CodecPages == UNION {[1..k -> Strings(MaxPageLen)] : k \in 1..MaxPages}

CodecInit ==
    /\ cpages \in CodecPages
    /\ csep \in Separators
    /\ cout = <<>>
    /\ cpc = "init"
    /\ file = <<>>
    /\ inventory = <<>>
    /\ disk = <<>>
    /\ root_tag = [Data |-> {}, GameRules |-> {}]
    /\ run = Idle
    /\ runs = 0

CodecExport ==
    /\ cpc = "init"
    /\ file' = ExportText(cpages, csep)
    /\ cpc' = "exported"
    /\ UNCHANGED <<inventory, disk, root_tag, run, runs, cpages, csep, cout>>

CodecImport ==
    /\ cpc = "exported"
    /\ cout' = ImportPages(file, csep)
    /\ cpc' = "imported"
    /\ UNCHANGED <<inventory, disk, root_tag, run, runs, cpages, csep, file>>

CodecNext == CodecExport \/ CodecImport

SpecCodec == CodecInit /\ [][CodecNext]_vars

-----------------------------------------------------------------------------
(* Vocabulary of the claims, stated on the data and not on the operators    *)
(* that model the code                                                      *)

WritableBook(item) ==
    \/ item.id.tagID = "TAG_Short" /\ item.id.value = 386
    \/ item.id.tagID = "TAG_String"
         /\ item.id.value = "minecraft:writable_book"

Books(inv) == {i \in 1..Len(inv) : WritableBook(inv[i])}

DistinctSlots(inv) ==
    \A i, j \in 1..Len(inv) : i # j => inv[i].Slot # inv[j].Slot

\* the inventories of the data model: 0 to 40 items, distinct slots 0..MaxSlot
DataModel(inv) ==
    /\ Len(inv) <= 40
    /\ DistinctSlots(inv)
    /\ \A i \in 1..Len(inv) : inv[i].Slot \in 0..MaxSlot

FreeMain(inv) == {s \in 0..35 : \A i \in 1..Len(inv) : inv[i].Slot # s}

\* r lists exactly the free slots of 0..35, in ascending order
ListsFreeMain(r, inv) ==
    /\ \A i, j \in 1..Len(r) : i < j => r[i] < r[j]
    /\ {r[i] : i \in 1..Len(r)} = FreeMain(inv)

OnePage == << <<>> >>     \* a pages list holding one empty page

\* after is before plus a "tag" key holding the default tag
GainedDefaultTag(before, after) ==
    /\ "tag" \notin DOMAIN before
    /\ DOMAIN after = DOMAIN before \cup {"tag"}
    /\ \A k \in DOMAIN before : after[k] = before[k]
    /\ DOMAIN after.tag = {"pages"}
    /\ after.tag.pages = OnePage

\* inv1 is inv0, except that the first book of inv0, when it has no tag, may
\* have gained the default tag
SameButDefaultTag(inv0, inv1) ==
    /\ Len(inv1) = Len(inv0)
    /\ \A i \in 1..Len(inv0) :
          \/ inv1[i] = inv0[i]
          \/ /\ i \in Books(inv0)
             /\ \A j \in 1..(i - 1) : j \notin Books(inv0)
             /\ GainedDefaultTag(inv0[i], inv1[i])

ResourceFailure == {"io", "world", "player"}

-----------------------------------------------------------------------------
(* Claims *)

SeparatorFree(pages, separator) ==
    \A i \in 1..Len(pages) : ~IsSubstring(separator, pages[i])

\* C1: for every page sequence P and separator S that is a substring of no
\* page of P, splitting the exported text as importbook does yields P.
C1_RoundTrip ==
    (cpc = "imported" /\ SeparatorFree(cpages, csep)) => cout = cpages

\* C2 (as claimed): after exportbook every item of the inventory has the keys
\* and values it had before the call, and no item was added or removed.
C2_ExportNeverMutates ==
    run.op = "exportbook" => inventory = run.inv0

\* C2 (amended): exportbook adds and removes no item, saves nothing and
\* changes no item, except that the book it finds gains the default tag of
\* one empty page when it has no tag.
C2_ExportOnlyDefaultTag ==
    run.op = "exportbook" =>
        /\ SameButDefaultTag(run.inv0, inventory)
        /\ disk = run.disk0
        /\ run.outcome \in {"world", "player", "nobook"}
              => inventory = run.inv0

C2_Witness ==
    /\ run.op = "exportbook"
    /\ run.outcome = "ok"
    /\ inventory # run.inv0

\* C3 (as claimed): on every inventory of the data model free_slots returns
\* exactly the slots of 0..35 that no item occupies, in ascending order, an
\* inventory of exactly 40 items included.
C3_FreeSlotsExact ==
    (run.op = "free_slots" /\ DataModel(run.inv0))
        => ListsFreeMain(run.slots, run.inv0)

\* C3 (amended): on an inventory of the data model with fewer than 40 items
\* free_slots returns exactly the free slots of 0..35 in ascending order;
\* on one of exactly 40 items it returns the empty list whatever is free.
C3_FreeSlotsUnlessFull ==
    (run.op = "free_slots" /\ DataModel(run.inv0)) =>
        IF Len(run.inv0) = 40
        THEN run.slots = <<>>
        ELSE ListsFreeMain(run.slots, run.inv0)

C3_Witness ==
    /\ run.op = "free_slots"
    /\ DataModel(run.inv0)
    /\ Len(run.inv0) = 40
    /\ FreeMain(run.inv0) # {}
    /\ run.slots = <<>>

\* C4: a run of importbook calls world.saveInPlace at most once: exactly once
\* when apply is set and the run got past the lookup/creation stage, never
\* when apply is unset or the run stopped on a reported failure; the saved
\* world changes only by that call.
C4_PersistenceGate ==
    run.op = "importbook" =>
        /\ run.saves \in {0, 1}
        /\ run.saves = 1 <=> (run.apply /\ run.outcome = "ok")
        /\ run.saves = 0 => disk = run.disk0
        /\ run.saves = 1 => disk = inventory

C4_Witness ==
    /\ run.op = "importbook"
    /\ run.apply
    /\ run.outcome = "ok"
    /\ run.saves = 1
    /\ disk # run.disk0

\* the pages the lookup or the creation of a run of importbook returned
OldPages ==
    IF run.created \/ "tag" \notin DOMAIN run.inv0[run.book]
    THEN OnePage
    ELSE run.inv0[run.book].tag.pages

\* the pages the text file holds, as importbook splits them
NewPages == ImportPages(file, DefaultSeparator)

\* C5: once importbook is past the lookup/creation stage the book's pages are
\* New when append is false, and Old followed by New when append is true.
C5_ReplaceOrAppend ==
    (run.op = "importbook" /\ run.outcome = "ok") =>
        /\ run.pages = OldPages
        /\ run.new = NewPages
        /\ inventory[run.book].tag.pages =
              IF run.append THEN OldPages \o NewPages ELSE NewPages

C5_Witness ==
    /\ run.op = "importbook"
    /\ run.outcome = "ok"
    /\ run.append
    /\ OldPages = << <<"A">>, <<"B">> >>
    /\ inventory[run.book].tag.pages = << <<"A">>, <<"B">>, <<"C">> >>

\* C6: new_book with an inventory and no explicit slot, when free_slots of
\* the inventory is empty, signals "no free slot" and leaves the inventory
\* as it was.
C6_NoFreeSlot ==
    (/\ run.op = "new_book"
     /\ run.given
     /\ run.slot = None
     /\ free_slots(run.inv0) = <<>>)
        => (run.outcome = "noslot" /\ inventory = run.inv0)

C6_Witness ==
    /\ run.op = "new_book"
    /\ run.given
    /\ run.slot = None
    /\ Len(run.inv0) = 36
    /\ FreeMain(run.inv0) = {}
    /\ run.outcome = "noslot"

C8_DefaultTagOnLookup ==
    (run.op = "get_bookpages" /\ run.outcome = "ok") =>
        /\ Len(inventory) = Len(run.inv0)
        /\ \A j \in 1..Len(inventory) :
              j # run.book => inventory[j] = run.inv0[j]
        /\ IF "tag" \in DOMAIN run.inv0[run.book]
           THEN /\ inventory[run.book] = run.inv0[run.book]
                /\ run.pages = run.inv0[run.book].tag.pages
           ELSE /\ GainedDefaultTag(run.inv0[run.book], inventory[run.book])
                /\ run.pages = OnePage

C8_Witness ==
    /\ run.op = "get_bookpages"
    /\ run.outcome = "ok"
    /\ "tag" \notin DOMAIN run.inv0[run.book]
    /\ inventory[run.book].tag.pages = OnePage
    /\ Len(run.inv0) > 1

\* C9 (as claimed): when exportbook or importbook stops because an external
\* resource could not be acquired, the inventory is as it was at the start.
C9_AbortBeforeMutation ==
    (run.op \in {"exportbook", "importbook"}
        /\ run.outcome \in ResourceFailure)
        => inventory = run.inv0

\* C9 (amended): when importbook stops on a resource failure, or exportbook
\* on a world or player failure, the inventory is as it was at the start;
\* when exportbook fails on its target file the lookup has run already, and
\* the inventory is as at the start except that the book found may have
\* gained the default tag.  Nothing is saved or written in any of the cases.
C9_AbortAfterLookupOnly ==
    (run.op \in {"exportbook", "importbook"}
        /\ run.outcome \in ResourceFailure) =>
        /\ disk = run.disk0
        /\ run.saves = 0
        /\ IF run.op = "exportbook" /\ run.outcome = "io"
           THEN SameButDefaultTag(run.inv0, inventory)
           ELSE inventory = run.inv0

C9_Witness ==
    /\ run.op = "exportbook"
    /\ run.outcome = "io"
    /\ inventory # run.inv0

=============================================================================
